---- MODULE Spec2Model ----
(***************************************************************************)
(* envedit (src/main.rs): snapshot the environment, write it to a temp     *)
(* file as name=value lines, run an editor on it, parse the file back and  *)
(* print the diff.                                                         *)
(*                                                                         *)
(* A String is a sequence of bytes (integers), so that String::cmp is the  *)
(* lexicographic order on the sequences.  Option<T> is <<>> (None) or      *)
(* <<v>> (Some(v)).  Result<T, E> is [ok |-> TRUE, val |-> v] or           *)
(* [ok |-> FALSE, err |-> e].                                              *)
(***************************************************************************)
EXTENDS Integers, Sequences, FiniteSets, TLC

VARIABLES
    pc,               \* position of main
    environ,          \* what env::vars() yields: a sequence of <<name, value>>
    env_vars,         \* Option<EnvVars>: main's env_vars
    file,             \* the NamedTempFile: [exists, text]
    status,           \* what became of the editor process
    reread,           \* whether the temp file was read back (main.rs:216)
    edited_env_vars,  \* Option<EnvVars>: main's edited_env_vars
    entries,          \* Option<Vec<DiffEntry>>: main's diff
    next,             \* index of the next entry the reporting loop prints
    out,              \* the lines printed on stdout
    panic             \* Option<message> of the panic that ended the run

vars == <<pc, environ, env_vars, file, status, reread, edited_env_vars,
          entries, next, out, panic>>

----------------------------------------------------------------------------
(* Bytes and strings *)

NL == 10
CR == 13
EQ == 61
Letters == {97, 98}

None == <<>>
Some(v) == <<v>>
IsSome(o) == o # None
Unwrap(o) == o[1]

Ok(v) == [ok |-> TRUE, val |-> v]
Err(e) == [ok |-> FALSE, err |-> e]

Contains(s, c) == \E i \in 1..Len(s) : s[i] = c

RECURSIVE StrLess(_, _)
StrLess(s, t) ==
    IF t = <<>> THEN FALSE
    ELSE IF s = <<>> THEN TRUE
    ELSE IF s[1] # t[1] THEN s[1] < t[1]
    ELSE StrLess(Tail(s), Tail(t))

StrLeq(s, t) == s = t \/ StrLess(s, t)

\* All sequences over S of length at most n.
SeqUpTo(S, n) == UNION {[1..k -> S] : k \in 0..n}

----------------------------------------------------------------------------
(* EnvEditError, EnvVar, EnvVars *)

IllegalNameMsg == <<"Variable name contains illegal character '='">>
MalformedMsg(index) ==
    <<"Error reading file: line ", ToString(index),
      " is malformed; missing '=' separator">>
ReadErrorMsg == <<"Error reading temp file: ", "io">>

EnvEditError(msg) == [msg |-> msg]

validate_name(name) ==
    IF Contains(name, EQ) THEN Err(EnvEditError(IllegalNameMsg)) ELSE Ok(<<>>)

EnvVar_new(name, value) ==
    IF validate_name(name).ok
    THEN Ok([name |-> name, value |-> value])
    ELSE Err(validate_name(name).err)

\* Vec::sort_by is a stable sort: x goes after every element that is not
\* greater than it.
RECURSIVE InsertByName(_, _)
InsertByName(sorted, x) ==
    IF sorted = <<>> THEN <<x>>
    ELSE IF StrLess(x.name, sorted[1].name) THEN <<x>> \o sorted
    ELSE <<sorted[1]>> \o InsertByName(Tail(sorted), x)

RECURSIVE SortFrom(_, _)
SortFrom(acc, rest) ==
    IF rest = <<>> THEN acc
    ELSE SortFrom(InsertByName(acc, rest[1]), Tail(rest))

\* Mutant: the sort is left out.
EnvVars_sort_omitted(v) == v

EnvVars_sort(v) == SortFrom(<<>>, v)

\* Mutant: a pair whose name is refused is skipped.
RECURSIVE FromPairsLoop_skipping(_, _)
FromPairsLoop_skipping(acc, pairs) ==
    IF pairs = <<>> THEN Ok(SortFrom(<<>>, acc))
    ELSE LET r == EnvVar_new(pairs[1][1], pairs[1][2])
         IN  IF r.ok
             THEN FromPairsLoop_skipping(Append(acc, r.val), Tail(pairs))
             ELSE FromPairsLoop_skipping(acc, Tail(pairs))

\* The loop of try_from over the iterator: acc is env_vars so far.
RECURSIVE FromPairsLoop(_, _)
FromPairsLoop(acc, pairs) ==
    IF pairs = <<>> THEN Ok(EnvVars_sort(acc))
    ELSE LET r == EnvVar_new(pairs[1][1], pairs[1][2])
         IN  IF r.ok THEN FromPairsLoop(Append(acc, r.val), Tail(pairs))
             ELSE Err(r.err)

EnvVars_from_pairs(pairs) == FromPairsLoop(<<>>, pairs)

----------------------------------------------------------------------------
(* Reading the file back *)

\* The segment of s up to the first c, and what follows that c.
RECURSIVE UpTo(_, _)
UpTo(s, c) ==
    IF s = <<>> \/ s[1] = c THEN <<>> ELSE <<s[1]>> \o UpTo(Tail(s), c)

After(s, c) == SubSeq(s, Len(UpTo(s, c)) + 2, Len(s))

\* str::split(c): one more segment than there are c's.
RECURSIVE Split(_, _)
Split(s, c) ==
    IF ~Contains(s, c) THEN <<s>>
    ELSE <<UpTo(s, c)>> \o Split(After(s, c), c)

StripCR(s) ==
    IF s # <<>> /\ s[Len(s)] = CR THEN SubSeq(s, 1, Len(s) - 1) ELSE s

\* BufRead::lines(): a line ends at '\n' (the '\n', and a '\r' before it,
\* are dropped) or at the end of the text.
RECURSIVE Lines(_)
Lines(text) ==
    IF text = <<>> THEN <<>>
    ELSE IF ~Contains(text, NL) THEN <<text>>
    ELSE <<StripCR(UpTo(text, NL))>> \o Lines(After(text, NL))

\* Mutant: the line is split at its first '=' only (splitn(2, '=')).
ParseLine_splitn(s) == EnvVar_new(UpTo(s, EQ), After(s, EQ))

\* main.rs:99 and 106, for a line with an '='
ParseLine(s) ==
    LET v == Split(s, EQ) IN EnvVar_new(v[1], v[2])

RECURSIVE FromLinesLoop(_, _, _)
FromLinesLoop(acc, lines, index) ==
    IF lines = <<>> THEN Ok(EnvVars_sort(acc))
    ELSE IF Len(Split(lines[1], EQ)) < 2
         THEN Err(EnvEditError(MalformedMsg(index)))
    ELSE LET r == ParseLine(lines[1])
         IN  IF r.ok
             THEN FromLinesLoop(Append(acc, r.val), Tail(lines), index + 1)
             ELSE Err(r.err)

\* Mutant: the lines are counted from 1.
EnvVars_from_read_one_based(text) == FromLinesLoop(<<>>, Lines(text), 1)

EnvVars_from_read(text) == FromLinesLoop(<<>>, Lines(text), 0)

----------------------------------------------------------------------------
(* Writing the file *)

\* Mutant: write! for writeln!, no newline after a record.
RECURSIVE ToText_unterminated(_)
ToText_unterminated(v) ==
    IF v = <<>> THEN <<>>
    ELSE v[1].name \o <<EQ>> \o v[1].value \o ToText_unterminated(Tail(v))

\* The text write_temp_file writes (main.rs:191-193).
RECURSIVE ToText(_)
ToText(v) ==
    IF v = <<>> THEN <<>>
    ELSE v[1].name \o <<EQ>> \o v[1].value \o <<NL>> \o ToText(Tail(v))

----------------------------------------------------------------------------
(* diff *)

Unchanged == "Unchanged"
Modified == "Modified"
Added == "Added"
Deleted == "Deleted"

DiffEntry(name, state, old_value, new_value) ==
    [name |-> name, state |-> state,
     old_value |-> old_value, new_value |-> new_value]

UnwrapNoneMsg == <<"called Option::unwrap() on a None value">>

\* HashMap::insert: a function from the keys to the entries.
MapInsert(map, key, entry) ==
    [k \in DOMAIN map \cup {key} |-> IF k = key THEN entry ELSE map[k]]

\* The first loop of diff (main.rs:148-156).
RECURSIVE DiffNewLoop(_, _)
DiffNewLoop(map, new) ==
    IF new = <<>> THEN map
    ELSE DiffNewLoop(
             MapInsert(map, new[1].name,
                       DiffEntry(new[1].name, Added, None, Some(new[1].value))),
             Tail(new))

\* One iteration of the second loop (main.rs:159-177).  The unwrap at
\* main.rs:162 panics when the entry found holds no new_value.
DiffOldStep(map, var) ==
    IF var.name \in DOMAIN map
    THEN IF map[var.name].new_value = None
         THEN Err(UnwrapNoneMsg)
         ELSE Ok(MapInsert(map, var.name,
                    DiffEntry(var.name,
                              IF var.value = Unwrap(map[var.name].new_value)
                              THEN Unchanged ELSE Modified,
                              Some(var.value),
                              map[var.name].new_value)))
    ELSE Ok(MapInsert(map, var.name,
                      DiffEntry(var.name, Deleted, Some(var.value), None)))

RECURSIVE DiffOldLoop(_, _)
DiffOldLoop(map, old) ==
    IF old = <<>> THEN Ok(map)
    ELSE LET r == DiffOldStep(map, old[1])
         IN  IF r.ok THEN DiffOldLoop(r.val, Tail(old)) ELSE r

\* entries.sort_by(name) of the map's values: the keys are distinct, so the
\* order the HashMap yields them in does not show.
RECURSIVE SortedEntries(_)
SortedEntries(map) ==
    IF DOMAIN map = {} THEN <<>>
    ELSE LET least == CHOOSE k \in DOMAIN map :
                          \A j \in DOMAIN map : StrLeq(k, j)
         IN  <<map[least]>>
             \o SortedEntries([k \in DOMAIN map \ {least} |-> map[k]])

\* Ok(entries), or Err(message) when diff panics.
diff(old, new) ==
    LET r == DiffOldLoop(DiffNewLoop(<<>>, new), old)
    IN  IF r.ok THEN Ok(SortedEntries(r.val)) ELSE r

\* The lines the reporting loop prints for one entry (main.rs:221-235):
\* Ok(lines), or Err(message) when an unwrap finds None.
Line(sign, name, value) == <<sign, 32>> \o name \o <<EQ>> \o value

PrintedLines(entry) ==
    LET needs_old == entry.state \in {Deleted, Modified}
        needs_new == entry.state \in {Added, Modified, Unchanged}
    IN  IF \/ needs_old /\ entry.old_value = None
           \/ needs_new /\ entry.new_value = None
        THEN Err(UnwrapNoneMsg)
        ELSE Ok(CASE entry.state = Added ->
                       <<Line(43, entry.name, Unwrap(entry.new_value))>>
                  [] entry.state = Deleted ->
                       <<Line(45, entry.name, Unwrap(entry.old_value))>>
                  [] entry.state = Modified ->
                       <<Line(45, entry.name, Unwrap(entry.old_value)),
                         Line(43, entry.name, Unwrap(entry.new_value))>>
                  [] entry.state = Unchanged ->
                       <<Line(32, entry.name, Unwrap(entry.new_value))>>)

----------------------------------------------------------------------------
(* main, one action per step.  A panic (every expect of main, the unwrap of *)
(* diff) unwinds main's frame, which drops the NamedTempFile when there is  *)
(* one; returning from main drops it too.                                   *)

NoFile == [exists |-> FALSE, text |-> <<>>]

Panic(msg) ==
    /\ pc' = "unwinding"
    /\ panic' = Some(msg)

\* main.rs:199-201
LoadEnv ==
    /\ pc = "start"
    /\ LET r == EnvVars_from_pairs(environ)
       IN  IF r.ok
           THEN /\ env_vars' = Some(r.val)
                /\ pc' = "loaded"
                /\ UNCHANGED panic
           ELSE /\ Panic(<<"Failed to load variables from environment">>
                         \o r.err.msg)
                /\ UNCHANGED env_vars
    /\ UNCHANGED <<environ, file, status, reread, edited_env_vars, entries,
                   next, out>>

\* main.rs:190
CreateTempOk ==
    /\ pc = "loaded"
    /\ file' = [exists |-> TRUE, text |-> <<>>]
    /\ pc' = "created"
    /\ UNCHANGED <<environ, env_vars, status, reread, edited_env_vars,
                   entries, next, out, panic>>

CreateTempFail ==
    /\ pc = "loaded"
    /\ Panic(<<"FIXME">>)
    /\ UNCHANGED <<environ, env_vars, file, status, reread, edited_env_vars,
                   entries, next, out>>

\* main.rs:191-195
WriteLinesOk ==
    /\ pc = "created"
    /\ file' = [file EXCEPT !.text = ToText(Unwrap(env_vars))]
    /\ pc' = "written"
    /\ UNCHANGED <<environ, env_vars, status, reread, edited_env_vars,
                   entries, next, out, panic>>

\* A writeln! or the flush fails after the first k records were written.
WriteLinesFail ==
    /\ pc = "created"
    /\ \E k \in 0..Len(Unwrap(env_vars)) :
           file' = [file EXCEPT
                        !.text = ToText(SubSeq(Unwrap(env_vars), 1, k))]
    /\ Panic(<<"FIXME">>)
    /\ UNCHANGED <<environ, env_vars, status, reread, edited_env_vars,
                   entries, next, out>>

\* main.rs:206-211
SpawnOk ==
    /\ pc = "written"
    /\ status' = "running"
    /\ pc' = "spawned"
    /\ UNCHANGED <<environ, env_vars, file, reread, edited_env_vars, entries,
                   next, out, panic>>

SpawnFail ==
    /\ pc = "written"
    /\ status' = "spawn_failed"
    /\ Panic(<<"what on earth">>)
    /\ UNCHANGED <<environ, env_vars, file, reread, edited_env_vars, entries,
                   next, out>>

ExitStatuses == {"exit_zero", "exit_nonzero", "signaled"}

\* main.rs:213: the editor leaves one of `texts` in the file and ends; its
\* ExitStatus is the value of wait(), which main drops.
WaitOk(texts) ==
    /\ pc = "spawned"
    /\ \E t \in texts : file' = [file EXCEPT !.text = t]
    /\ \E st \in ExitStatuses : status' = st
    /\ pc' = "waited"
    /\ UNCHANGED <<environ, env_vars, reread, edited_env_vars, entries, next,
                   out, panic>>

\* Mutant: the error of wait() is dropped and main goes on.
WaitFail_ignored ==
    /\ pc = "spawned"
    /\ status' = "wait_failed"
    /\ pc' = "waited"
    /\ UNCHANGED <<environ, env_vars, file, reread, edited_env_vars, entries,
                   next, out, panic>>

WaitFail ==
    /\ pc = "spawned"
    /\ status' = "wait_failed"
    /\ Panic(<<"wait">>)
    /\ UNCHANGED <<environ, env_vars, file, reread, edited_env_vars, entries,
                   next, out>>

\* main.rs:215
RewindOk ==
    /\ pc = "waited"
    /\ pc' = "rewound"
    /\ UNCHANGED <<environ, env_vars, file, status, reread, edited_env_vars,
                   entries, next, out, panic>>

RewindFail ==
    /\ pc = "waited"
    /\ Panic(<<"yup">>)
    /\ UNCHANGED <<environ, env_vars, file, status, reread, edited_env_vars,
                   entries, next, out>>

\* main.rs:216
ParseFile ==
    /\ pc = "rewound"
    /\ reread' = TRUE
    /\ LET r == EnvVars_from_read(file.text)
       IN  IF r.ok
           THEN /\ edited_env_vars' = Some(r.val)
                /\ pc' = "parsed"
                /\ UNCHANGED panic
           ELSE /\ Panic(<<"idk lol">> \o r.err.msg)
                /\ UNCHANGED edited_env_vars
    /\ UNCHANGED <<environ, env_vars, file, status, entries, next, out>>

\* main.rs:109-113: reading a line fails.
ReadError ==
    /\ pc = "rewound"
    /\ reread' = TRUE
    /\ Panic(<<"idk lol">> \o EnvEditError(ReadErrorMsg).msg)
    /\ UNCHANGED <<environ, env_vars, file, status, edited_env_vars, entries,
                   next, out>>

\* main.rs:218
Diff ==
    /\ pc = "parsed"
    /\ LET r == diff(Unwrap(env_vars), Unwrap(edited_env_vars))
       IN  IF r.ok
           THEN /\ entries' = Some(r.val)
                /\ next' = 1
                /\ pc' = "printing"
                /\ UNCHANGED panic
           ELSE /\ Panic(r.err)
                /\ UNCHANGED <<entries, next>>
    /\ UNCHANGED <<environ, env_vars, file, status, reread, edited_env_vars,
                   out>>

\* main.rs:220-236, one iteration
PrintEntry ==
    /\ pc = "printing"
    /\ next <= Len(Unwrap(entries))
    /\ LET r == PrintedLines(Unwrap(entries)[next])
       IN  IF r.ok
           THEN /\ out' = out \o r.val
                /\ next' = next + 1
                /\ UNCHANGED <<pc, panic>>
           ELSE /\ Panic(r.err)
                /\ UNCHANGED <<out, next>>
    /\ UNCHANGED <<environ, env_vars, file, status, reread, edited_env_vars,
                   entries>>

LoopEnd ==
    /\ pc = "printing"
    /\ next > Len(Unwrap(entries))
    /\ pc' = "returning"
    /\ UNCHANGED <<environ, env_vars, file, status, reread, edited_env_vars,
                   entries, next, out, panic>>

\* Mutant: the file is kept (NamedTempFile::keep, or a leaked handle).
DropFile_kept ==
    /\ pc \in {"returning", "unwinding"}
    /\ pc' = IF pc = "returning" THEN "done" ELSE "aborted"
    /\ UNCHANGED <<environ, env_vars, file, status, reread, edited_env_vars,
                   entries, next, out, panic>>

\* Drop for NamedTempFile: the file is removed.
DropFile ==
    /\ pc \in {"returning", "unwinding"}
    /\ file' = NoFile
    /\ pc' = IF pc = "returning" THEN "done" ELSE "aborted"
    /\ UNCHANGED <<environ, env_vars, status, reread, edited_env_vars,
                   entries, next, out, panic>>

----------------------------------------------------------------------------
(* Bounds and input sets *)

MaxPairs == 2      \* pairs env::vars() yields
MaxNameLen == 2    \* bytes of a name
MaxValueLen == 1   \* bytes of a value
MaxVars == 2       \* records of a variable set
MaxTextLen == 6    \* bytes of a text that is parsed
MaxEditLen == 3    \* bytes of the text the editor leaves in a run of main

Record(name, value) == [name |-> name, value |-> value]

IsSorted(v) ==
    \A i \in 1..(Len(v) - 1) : StrLeq(v[i].name, v[i + 1].name)

\* The values of EnvVars with at most n records over names and values: the
\* sequences sorted by name (equal names in any order).
SortedSets(names, values, n) ==
    {v \in SeqUpTo([name : names, value : values], n) : IsSorted(v)}

PairsOf(v) == [i \in 1..Len(v) |-> <<v[i].name, v[i].value>>]

\* main at position p, with the variables main has set by then.
At(p, env, old, f, st, rr, new) ==
    /\ pc = p
    /\ environ = env
    /\ env_vars = old
    /\ file = f
    /\ status = st
    /\ reread = rr
    /\ edited_env_vars = new
    /\ entries = None
    /\ next = 1
    /\ out = <<>>
    /\ panic = None

Start(env) == At("start", env, None, NoFile, "none", FALSE, None)

----------------------------------------------------------------------------
(* A run of main: any environment, any edit, any failure of a step *)

MainNames == {<<c>> : c \in {EQ} \cup Letters}
MainValues == {<<>>, <<97>>}
EditedTexts == SeqUpTo({NL, EQ, 97}, MaxEditLen)

Init == \E env \in SeqUpTo(MainNames \X MainValues, MaxPairs) : Start(env)

\* The steps of main, with an editor that leaves one of `texts`.
Step(texts) ==
    \/ LoadEnv
    \/ CreateTempOk
    \/ CreateTempFail
    \/ WriteLinesOk
    \/ WriteLinesFail
    \/ SpawnOk
    \/ SpawnFail
    \/ WaitOk(texts)
    \/ WaitFail
    \/ RewindOk
    \/ RewindFail
    \/ ParseFile
    \/ ReadError
    \/ Diff
    \/ PrintEntry
    \/ LoopEnd
    \/ DropFile

Next == Step(EditedTexts)

Spec == Init /\ [][Next]_vars

\* The same run with progress: no step of main waits for anything but the
\* editor, which is taken to end.  The editor leaves an empty file, a blank
\* name and value, a line without '=' or a line a= .
FairTexts == {<<>>, <<EQ, NL>>, <<97, NL>>, <<97, EQ, NL>>}

NextFair == Step(FairTexts)

FairSpec == Init /\ [][NextFair]_vars /\ WF_vars(NextFair)

----------------------------------------------------------------------------
(* EnvVars::try_from on an iterator of pairs *)

PairNames == SeqUpTo({EQ} \cup Letters, MaxNameLen)
PairValues == {<<97>>, <<97, NL, 98, NL>>}

InitFromPairs ==
    \E env \in SeqUpTo(PairNames \X PairValues, MaxPairs) : Start(env)

SpecFromPairs == InitFromPairs /\ [][LoadEnv]_vars

----------------------------------------------------------------------------
(* EnvVars::try_from on a reader: the text of the file is any text *)

TextAlphabet == {NL, CR, EQ} \cup Letters

InitParse ==
    \E text \in SeqUpTo(TextAlphabet, MaxTextLen) :
        At("rewound", <<>>, Some(<<>>), [exists |-> TRUE, text |-> text],
           "exit_zero", FALSE, None)

SpecParse == InitParse /\ [][ParseFile]_vars

----------------------------------------------------------------------------
(* write_temp_file, an editor that changes nothing, and the parse *)

RoundTripNames == {<<97>>, <<98>>, <<97, NL>>, <<97, CR>>}
RoundTripValues == SeqUpTo({NL, CR, EQ, 97}, MaxValueLen)

InitRoundTrip ==
    \E v \in SortedSets(RoundTripNames, RoundTripValues, MaxVars) :
        At("created", PairsOf(v), Some(v), [exists |-> TRUE, text |-> <<>>],
           "none", FALSE, None)

NextRoundTrip ==
    \/ WriteLinesOk
    \/ SpawnOk
    \/ WaitOk({file.text})
    \/ RewindOk
    \/ ParseFile

SpecRoundTrip == InitRoundTrip /\ [][NextRoundTrip]_vars

----------------------------------------------------------------------------
(* diff on any two variable sets, and the reporting loop *)

DiffNames == {<<c>> : c \in Letters}
DiffValues == {<<>>, <<97>>}
DiffSets == SortedSets(DiffNames, DiffValues, MaxVars)

InitDiff ==
    \E old \in DiffSets, new \in DiffSets :
        At("parsed", PairsOf(old), Some(old),
           [exists |-> TRUE, text |-> ToText(new)], "exit_zero", TRUE,
           Some(new))

NextDiff ==
    \/ Diff
    \/ PrintEntry
    \/ LoopEnd

SpecDiff == InitDiff /\ [][NextDiff]_vars

----------------------------------------------------------------------------
(* Properties of diff, under SpecDiff (any two sets) and Spec (a run) *)

NamesOf(v) == {v[i].name : i \in 1..Len(v)}

\* The value a name has in a set: that of its last record.
LastValue(v, n) ==
    v[CHOOSE i \in 1..Len(v) :
          /\ v[i].name = n
          /\ \A j \in (i + 1)..Len(v) : v[j].name # n].value

DiffOld == Unwrap(env_vars)
DiffNew == Unwrap(edited_env_vars)
\* Once the file is parsed the next step of main is the call of diff.
DiffActed == IsSome(edited_env_vars) /\ pc # "parsed"
DiffReturned == IsSome(entries)
DiffPanicked == entries = None /\ panic = Some(UnwrapNoneMsg)

ExpectedState(n) ==
    IF n \notin NamesOf(DiffOld) THEN Added
    ELSE IF n \notin NamesOf(DiffNew) THEN Deleted
    ELSE IF LastValue(DiffOld, n) = LastValue(DiffNew, n) THEN Unchanged
    ELSE Modified

Classified(es) ==
    \A n \in NamesOf(DiffOld) \cup NamesOf(DiffNew) :
        \E i \in 1..Len(es) : es[i].name = n /\ es[i].state = ExpectedState(n)

ExactlyOnce(es) ==
    /\ \A n \in NamesOf(DiffOld) \cup NamesOf(DiffNew) :
           Cardinality({i \in 1..Len(es) : es[i].name = n}) = 1
    /\ \A i \in 1..Len(es) :
           es[i].name \in NamesOf(DiffOld) \cup NamesOf(DiffNew)

Consistent(e) ==
    /\ e.state = Added => e.old_value = None /\ IsSome(e.new_value)
    /\ e.state = Deleted => e.new_value = None /\ IsSome(e.old_value)
    /\ e.state \in {Unchanged, Modified} =>
           IsSome(e.old_value) /\ IsSome(e.new_value)

\* C1: for every pair of variable sets, duplicates included, diff(old, new)
\* classifies each name: only in new, Added; only in old, Deleted; in both
\* with equal values, Unchanged; in both with unequal values, Modified.
C1_DiffClassifiesEveryName ==
    DiffActed => DiffReturned /\ Classified(Unwrap(entries))

\* C2: for every pair of variable sets, duplicates included, every name of
\* old or new is in exactly one entry of diff(old, new), and no entry has a
\* name of neither set.
C2_DiffHasEachNameOnce ==
    DiffActed => DiffReturned /\ ExactlyOnce(Unwrap(entries))

\* C10: for every pair of variable sets, every entry diff returns has the
\* values its state calls for, and neither the unwrap inside diff nor the
\* unwraps of the reporting loop find an absent value.
C10_NoUnwrapOfNone ==
    /\ panic # Some(UnwrapNoneMsg)
    /\ DiffActed => DiffReturned
    /\ DiffReturned =>
           \A i \in 1..Len(Unwrap(entries)) : Consistent(Unwrap(entries)[i])

\* What diff does do: it panics exactly when a name that new lacks is in old
\* more than once, and otherwise returns the entries C1, C2 and C10 describe,
\* which the reporting loop prints without a panic.
DiffPanicsOnRepeatedDeletedName ==
    DiffActed =>
        IF \E i, j \in 1..Len(DiffOld) :
               /\ i # j
               /\ DiffOld[i].name = DiffOld[j].name
               /\ DiffOld[i].name \notin NamesOf(DiffNew)
        THEN DiffPanicked
        ELSE /\ DiffReturned
             /\ panic = None
             /\ Classified(Unwrap(entries))
             /\ ExactlyOnce(Unwrap(entries))
             /\ \A i \in 1..Len(Unwrap(entries)) :
                    Consistent(Unwrap(entries)[i])

----------------------------------------------------------------------------
(* Properties of EnvVars::try_from on pairs, under SpecFromPairs *)

Count(seq, x) == Cardinality({i \in 1..Len(seq) : seq[i] = x})

LoadActed == pc # "start"
BadNames == {i \in 1..Len(environ) : Contains(environ[i][1], EQ)}

\* C4: when no name of the pairs contains '=', try_from succeeds and returns
\* one record per pair (duplicate names kept, values unchanged, embedded
\* newlines included), ordered by name ascending.
C4_FromPairsKeepsEveryPairSorted ==
    LoadActed /\ BadNames = {} =>
        /\ pc = "loaded"
        /\ panic = None
        /\ IsSome(env_vars)
        /\ Len(Unwrap(env_vars)) = Len(environ)
        /\ \A i \in 1..Len(environ) :
               Count(Unwrap(env_vars), Record(environ[i][1], environ[i][2]))
                   = Count(environ, environ[i])
        /\ IsSorted(Unwrap(env_vars))

\* Pairs that the sort has to reorder, one of them with a newline in its
\* value, were loaded.
C4_Witness ==
    /\ pc = "loaded"
    /\ Len(environ) = 2
    /\ StrLess(environ[2][1], environ[1][1])
    /\ Contains(environ[1][2], NL)
    /\ Unwrap(env_vars)[2] = Record(environ[1][1], environ[1][2])

\* C5: EnvVar::new fails with the name-validation error for a name that
\* contains '=', whatever the value, and try_from on pairs of which one name
\* contains '=' fails as a whole: the error, and no variable set.
C5_BadNameFailsTheWholeSet ==
    /\ \A i \in BadNames :
           EnvVar_new(environ[i][1], environ[i][2])
               = Err(EnvEditError(IllegalNameMsg))
    /\ LoadActed /\ BadNames # {} =>
           /\ env_vars = None
           /\ pc = "unwinding"
           /\ panic = Some(<<"Failed to load variables from environment">>
                           \o IllegalNameMsg)

\* A valid pair came before the bad one, and nothing was returned.
C5_Witness ==
    /\ pc = "unwinding"
    /\ env_vars = None
    /\ Len(environ) = 2
    /\ ~Contains(environ[1][1], EQ)
    /\ Contains(environ[2][1], EQ)

----------------------------------------------------------------------------
(* Properties of EnvVars::try_from on a reader, under SpecParse.  The lines *)
(* of the text are stated here from the positions of its newlines.          *)

Min(S) == CHOOSE x \in S : \A y \in S : x <= y

Newlines(text) == {i \in 1..Len(text) : text[i] = NL}

LineCount(text) ==
    Cardinality(Newlines(text))
        + (IF text # <<>> /\ text[Len(text)] # NL THEN 1 ELSE 0)

\* The position of the k-th newline; 0 for k = 0.
NthNewline(text, k) ==
    IF k = 0 THEN 0
    ELSE CHOOSE p \in Newlines(text) :
             Cardinality({q \in Newlines(text) : q <= p}) = k

\* Line k (from 1) without its line ending.
LineOf(text, k) ==
    LET first == NthNewline(text, k - 1) + 1
        ended == k <= Cardinality(Newlines(text))
        last == IF ended THEN NthNewline(text, k) - 1 ELSE Len(text)
    IN  IF ended /\ last >= first /\ text[last] = CR
        THEN SubSeq(text, first, last - 1)
        ELSE SubSeq(text, first, last)

Malformed(text) ==
    {k \in 1..LineCount(text) : ~Contains(LineOf(text, k), EQ)}

\* Segments 0 and 1 of a line that holds an '='.
LineRecord(l) ==
    LET eqs == {i \in 1..Len(l) : l[i] = EQ}
        eq1 == Min(eqs)
        eq2 == Min((eqs \ {eq1}) \cup {Len(l) + 1})
    IN  Record(SubSeq(l, 1, eq1 - 1), SubSeq(l, eq1 + 1, eq2 - 1))

ParseActed == reread

\* C6: when a line of the text has no '=' (a blank line included) the parse
\* fails with the malformed-line error that carries the 0-based index of the
\* first such line and returns no variable set; when every line has an '='
\* the parse succeeds.
C6_MalformedLineFailsWithItsIndex ==
    ParseActed =>
        IF Malformed(file.text) # {}
        THEN /\ pc = "unwinding"
             /\ edited_env_vars = None
             /\ panic = Some(<<"idk lol">>
                             \o MalformedMsg(Min(Malformed(file.text)) - 1))
        ELSE /\ pc = "parsed"
             /\ IsSome(edited_env_vars)
             /\ panic = None

\* The first line is well formed and the second, a blank one, is not: the
\* error names line 1.
C6_Witness ==
    /\ ParseActed
    /\ LineCount(file.text) >= 2
    /\ LineOf(file.text, 2) = <<>>
    /\ edited_env_vars = None
    /\ panic = Some(<<"idk lol">> \o MalformedMsg(1))

\* C7: a line with an '=' yields the record whose name is its segment 0 and
\* whose value is its segment 1; further '=' and the text after the second
\* segment are dropped.
C7_OnlyTheFirstTwoSegmentsAreKept ==
    ParseActed /\ IsSome(edited_env_vars) =>
        LET v == Unwrap(edited_env_vars)
            rec(k) == LineRecord(LineOf(file.text, k))
            n == LineCount(file.text)
        IN  /\ Len(v) = n
            /\ \A k \in 1..n :
                   Count(v, rec(k))
                       = Cardinality({j \in 1..n : rec(j) = rec(k)})

\* "a=b=a" parsed to name "a", value "b".
C7_Witness ==
    /\ ParseActed
    /\ file.text = <<97, EQ, 98, EQ, 97, NL>>
    /\ edited_env_vars = Some(<<Record(<<97>>, <<98>>)>>)

----------------------------------------------------------------------------
(* The round trip through the file, under SpecRoundTrip *)

NoDuplicateNames(v) ==
    \A i, j \in 1..Len(v) : v[i].name = v[j].name => i = j

NoEqInValues(v) == \A i \in 1..Len(v) : ~Contains(v[i].value, EQ)

EndsWith(s, c) == s # <<>> /\ s[Len(s)] = c

NoLineBreaks(v) ==
    \A i \in 1..Len(v) :
        /\ ~Contains(v[i].name, NL)
        /\ ~Contains(v[i].value, NL)
        /\ ~EndsWith(v[i].value, CR)

RoundTrips ==
    /\ pc = "parsed"
    /\ panic = None
    /\ edited_env_vars = env_vars

\* C3 as stated: a set with no duplicate names and no '=' in a value is
\* written and parsed back to the same set.
C3_RoundTripAsStated ==
    ParseActed /\ NoDuplicateNames(Unwrap(env_vars))
               /\ NoEqInValues(Unwrap(env_vars))
        => RoundTrips

\* C3, amended: a set with no duplicate names, no '=' in a value, no '\n' in
\* a name or a value and no value that ends in '\r' is written and parsed
\* back to the same set: same names, same values, same order.
C3_RoundTripWithoutLineBreaks ==
    ParseActed /\ NoDuplicateNames(Unwrap(env_vars))
               /\ NoEqInValues(Unwrap(env_vars))
               /\ NoLineBreaks(Unwrap(env_vars))
        => RoundTrips

\* Two records came back as written, one of them with a '\r' in its name.
C3_Witness ==
    /\ ParseActed
    /\ Len(Unwrap(env_vars)) = 2
    /\ NoDuplicateNames(Unwrap(env_vars))
    /\ NoEqInValues(Unwrap(env_vars))
    /\ NoLineBreaks(Unwrap(env_vars))
    /\ Contains(Unwrap(env_vars)[2].name, CR)
    /\ file.text = ToText(Unwrap(env_vars))
    /\ RoundTrips

----------------------------------------------------------------------------
(* Properties of a run of main, under Spec and FairSpec *)

NothingReadBack ==
    /\ ~reread
    /\ edited_env_vars = None
    /\ entries = None
    /\ out = <<>>

Aborting == pc \in {"unwinding", "aborted"}

\* C8 as stated: when the editor fails to launch or exits with a non-zero
\* or abnormal status the run aborts; the file is not read back, diff is not
\* computed and no diff line is printed.
C8_EditorFailureAbortsAsStated ==
    status \in {"spawn_failed", "wait_failed", "exit_nonzero", "signaled"} =>
        NothingReadBack

\* C8, amended: when the editor fails to launch, or waiting for it fails, the
\* run aborts; the file is not read back, diff is not computed and no diff
\* line is printed.  (The exit status of the editor is not looked at.)
C8_LaunchOrWaitFailureAborts ==
    status \in {"spawn_failed", "wait_failed"} =>
        Aborting /\ NothingReadBack

\* The wait on the editor failed and the run was aborted.
C8_Witness ==
    /\ status = "wait_failed"
    /\ pc = "aborted"
    /\ panic = Some(<<"wait">>)
    /\ NothingReadBack

\* C9: once the temp file is created it is eventually deleted, whichever way
\* the run ends.
C9_TempFileIsEventuallyDeleted == file.exists ~> ~file.exists

\* The same for the runs that ended: no file is left.
NoFileLeftWhenMainEnds == pc \in {"done", "aborted"} => ~file.exists

\* A run that failed to parse the edited text has ended, its file deleted.
C9_Witness ==
    /\ pc = "aborted"
    /\ reread
    /\ panic = Some(<<"idk lol">> \o MalformedMsg(0))
    /\ ~file.exists

====
